---- MODULE Spec2Model ----
(***************************************************************************)
(* Model of migrations/migrate_geostatistical_framework.py: the import of  *)
(* the INEGI geostatistical framework (entities, municipalities,           *)
(* localities) into the Locality / LocalityType tables, one pass per       *)
(* level, with the parent links kept in in-memory stores.                  *)
(***************************************************************************)
EXTENDS Integers, Sequences, FiniteSets, TLC

VARIABLES
    shp,            \* the three shapefile layers on disk, by migrator name
    unpacked,       \* os.path.exists(TARGET_DIR)
    unpackCalls,    \* history: the runs that called unpack_data
    BASIC_SCHEMA,   \* the module-level dict (its list and dict are shared)
    localityTypes,  \* table LocalityType, in creation order
    localities,     \* table Locality, in creation order (row id = index)
    created_from,   \* history: the feature each Locality row was made from
    migrators,      \* self.localities of the three migrators of the run
    stores,         \* the stores dict: key -> migrator whose dict it aliases
    pc,             \* "idle" | "start" | "loop" | "done" | "aborted"
    level,          \* the migrator that is running
    idx,            \* features of the running layer already processed
    run,            \* calls of migrate_geostatistical_framework so far
    rowsBefore,     \* history: Len(localities) when the run began
    typesBefore,    \* history: Len(localityTypes) when the run began
    error           \* the uncaught exception of the run, "" if none

vars == <<shp, unpacked, unpackCalls, BASIC_SCHEMA, localityTypes, localities,
          created_from, migrators, stores, pc, level, idx, run, rowsBefore,
          typesBefore, error>>

----------------------------------------------------------------------------
(* Bounds *)

MaxEnt == 2
MaxMun == 2
MaxLoc == 1
MaxRuns == 2
MaxGeomFeatures == 1

Ents == {"01", "02"}
Muns == {"001", "002"}
Locs == {"0001"}
Rings == {"a", "b"}

----------------------------------------------------------------------------
(* Geometries (the GDAL objects the code drives) *)

LayerSrs == "layer"
TargetSrs == "target"

\* feature.geom of a Polygon feature with ring r, in the layer's SRS
PolygonGeom(r) ==
    [geom_type |-> "Polygon", rings |-> <<[ring |-> r, crs |-> LayerSrs]>>,
     srs |-> LayerSrs]

\* feature.geom of a MultiPolygon feature
MultiPolygonGeom(rs) ==
    [geom_type |-> "MultiPolygon",
     rings |-> [i \in DOMAIN rs |-> [ring |-> rs[i], crs |-> LayerSrs]],
     srs |-> LayerSrs]

\* OGRGeometry(OGRGeomType('MultiPolygon')): an empty container, no SRS
EmptyMultiPolygon == [geom_type |-> "MultiPolygon", rings |-> <<>>, srs |-> "none"]

\* geometry.add(other): the members of other are appended
GeomAdd(g, other) == [g EXCEPT !.rings = @ \o other.rings]

NoWrapGeometry(feature) == feature.geom

\* lines 102-106: a Polygon is wrapped into a new MultiPolygon
WrapGeometry(feature) ==
    IF feature.geom.geom_type = "Polygon"
    THEN GeomAdd(EmptyMultiPolygon, feature.geom)
    ELSE feature.geom

\* geometry.transform(self.transform): every coordinate goes to the target SRS
Transform(g) ==
    [g EXCEPT !.rings = [i \in DOMAIN @ |-> [@[i] EXCEPT !.crs = TargetSrs]],
              !.srs = TargetSrs]

\* geometry.wkt: the type and the coordinates, without the SRS
Wkt(g) == [geom_type |-> g.geom_type, rings |-> g.rings]

----------------------------------------------------------------------------
(* Features and layers *)

EntFeature(e, g) == [CVEGEO |-> e, CVE_ENT |-> e, geom |-> g]
MunFeature(e, m, g) ==
    [CVEGEO |-> e \o m, CVE_ENT |-> e, CVE_MUN |-> m, geom |-> g]
LocFeature(e, m, l, g) ==
    [CVEGEO |-> e \o m \o l, CVE_ENT |-> e, CVE_MUN |-> m, CVE_LOC |-> l,
     geom |-> g]

SeqsUpTo(S, n) == UNION {[1..k -> S] : k \in 0..n}

\* the sequences whose features have pairwise distinct CVEGEO
KeyedSeqsUpTo(S, n) ==
    {s \in SeqsUpTo(S, n) :
        \A i, j \in DOMAIN s : i # j => s[i].CVEGEO # s[j].CVEGEO}

\* layers that vary in their codes; CVEGEO is a key within a layer
HierarchyInputs ==
    LET g == PolygonGeom("a")
    IN  [Entidad : KeyedSeqsUpTo({EntFeature(e, g) : e \in Ents}, MaxEnt),
         Municipio : KeyedSeqsUpTo({MunFeature(e, m, g) : e \in Ents, m \in Muns},
                                   MaxMun),
         Localidad : KeyedSeqsUpTo({LocFeature(e, m, l, g) :
                                       e \in Ents, m \in Muns, l \in Locs}, MaxLoc)]

\* layers that vary in their geometries
GeometryInputs ==
    LET gs == {PolygonGeom(r) : r \in Rings} \cup {MultiPolygonGeom(<<"a", "b">>)}
    IN  [Entidad : SeqsUpTo({EntFeature("01", g) : g \in gs}, MaxGeomFeatures),
         Municipio : SeqsUpTo({MunFeature("01", "001", g) : g \in gs},
                              MaxGeomFeatures),
         Localidad : SeqsUpTo({LocFeature("01", "001", "0001", g) : g \in gs},
                              MaxGeomFeatures)]

----------------------------------------------------------------------------
(* The migrators' class attributes *)

Names == {"Entidad", "Municipio", "Localidad"}

Attributes(name) ==
    CASE name = "Entidad" ->
           <<(<<"CVEGEO", "Clave de geometria">>),
             (<<"CVE_ENT", "Clave de entidad">>)>>
      [] name = "Municipio" ->
           <<(<<"CVEGEO", "Clave de geometria">>),
             (<<"CVE_ENT", "Clave de entidad">>),
             (<<"CVE_MUN", "Clave de municipio">>)>>
      [] name = "Localidad" ->
           <<(<<"CVEGEO", "Clave de geometria">>),
             (<<"CVE_ENT", "Clave de entidad">>),
             (<<"CVE_MUN", "Clave de municipio">>),
             (<<"CVE_LOC", "Clave de localidad">>)>>

\* the attribute codes of a level, in declaration order
Codes(name) == [i \in DOMAIN Attributes(name) |-> Attributes(name)[i][1]]

CodeSet(name) == {Codes(name)[i] : i \in DOMAIN Codes(name)}

InitialBasicSchema ==
    [title |-> "INEGI Marco Geoestadistico 2018", type |-> "object",
     required |-> <<>>, properties |-> <<>>]

----------------------------------------------------------------------------
(* Python dicts *)

EmptyDict == <<>>

\* d[k] = v
Put(d, k, v) == [x \in (DOMAIN d) \cup {k} |-> IF x = k THEN v ELSE d[x]]

GetOrNone(d, k) ==
    IF k \in DOMAIN d THEN [found |-> TRUE, value |-> d[k]]
    ELSE [found |-> TRUE, value |-> 0]

\* d[k]: the value, or KeyError (found = FALSE)
Lookup(d, k) ==
    IF k \in DOMAIN d THEN [found |-> TRUE, value |-> d[k]]
    ELSE [found |-> FALSE, value |-> 0]

----------------------------------------------------------------------------
(* Migrator *)

\* create_metadata_schema: BASIC_SCHEMA.copy() is a shallow copy, so the
\* 'required' list and the 'properties' dict that are appended to are the
\* module's own; only 'title' is set on the copy.  The result is the dumped
\* schema and the module dict as the call leaves it.
create_metadata_schema(base, name) ==
    LET attrs == Attributes(name)
        required == base.required \o Codes(name)
        properties ==
            [c \in (DOMAIN base.properties) \cup CodeSet(name) |->
                IF c \in CodeSet(name)
                THEN [type |-> "integer",
                      title |-> attrs[CHOOSE i \in DOMAIN attrs : attrs[i][1] = c][2]]
                ELSE base.properties[c]]
    IN  [schema |-> [title |-> name \o " " \o base.title, type |-> base.type,
                     required |-> required, properties |-> properties],
         base |-> [base EXCEPT !.required = required,
                               !.properties = properties]]

\* get_feature_metadata
get_feature_metadata(feature, name) == [c \in CodeSet(name) |-> feature[c]]

AlwaysUnpack(exists) == FALSE

\* data_is_unpacked
data_is_unpacked(exists) == exists

\* Migrator.create_locality_implications and its three overrides: the parents
\* added to is_part_of, the migrators' dicts afterwards, and the exception
\* raised ("" if none).  sts[key] names the migrator whose dict the stores
\* dict holds under key.
RegisterFirst_create_locality_implications(name, feature, locality, migs, sts) ==
    CASE name = "Entidad" ->
           [error |-> "", parents |-> {},
            migrators |-> [migs EXCEPT !.Entidad = Put(@, feature.CVE_ENT, locality)]]
      [] name = "Municipio" ->
           LET entity == Lookup(migs[sts.entities], feature.CVE_ENT)
               reg == [migs EXCEPT !.Municipio = Put(@, feature.CVE_MUN, locality)]
           IN  IF ~entity.found
               THEN [error |-> "KeyError", parents |-> {}, migrators |-> reg]
               ELSE [error |-> "", parents |-> {entity.value}, migrators |-> reg]
      [] name = "Localidad" ->
           LET entity == Lookup(migs[sts.entities], feature.CVE_ENT)
               municipality == Lookup(migs[sts.municipalities], feature.CVE_MUN)
           IN  IF ~entity.found \/ ~municipality.found
               THEN [error |-> "KeyError", parents |-> {}, migrators |-> migs]
               ELSE [error |-> "",
                     parents |-> {entity.value, municipality.value},
                     migrators |-> migs]

EntityOnly_create_locality_implications(name, feature, locality, migs, sts) ==
    CASE name = "Entidad" ->
           [error |-> "", parents |-> {},
            migrators |-> [migs EXCEPT !.Entidad = Put(@, feature.CVE_ENT, locality)]]
      [] name = "Municipio" ->
           LET entity == Lookup(migs[sts.entities], feature.CVE_ENT)
           IN  IF ~entity.found
               THEN [error |-> "KeyError", parents |-> {}, migrators |-> migs]
               ELSE [error |-> "", parents |-> {entity.value},
                     migrators |->
                        [migs EXCEPT !.Municipio = Put(@, feature.CVE_MUN, locality)]]
      [] name = "Localidad" ->
           LET entity == Lookup(migs[sts.entities], feature.CVE_ENT)
               municipality == Lookup(migs[sts.municipalities], feature.CVE_MUN)
           IN  IF ~entity.found \/ ~municipality.found
               THEN [error |-> "KeyError", parents |-> {}, migrators |-> migs]
               ELSE [error |-> "", parents |-> {entity.value}, migrators |-> migs]

create_locality_implications(name, feature, locality, migs, sts) ==
    CASE name = "Entidad" ->
           [error |-> "", parents |-> {},
            migrators |-> [migs EXCEPT !.Entidad = Put(@, feature.CVE_ENT, locality)]]
      [] name = "Municipio" ->
           LET entity == Lookup(migs[sts.entities], feature.CVE_ENT)
           IN  IF ~entity.found
               THEN [error |-> "KeyError", parents |-> {}, migrators |-> migs]
               ELSE [error |-> "", parents |-> {entity.value},
                     migrators |->
                        [migs EXCEPT !.Municipio = Put(@, feature.CVE_MUN, locality)]]
      [] name = "Localidad" ->
           LET entity == Lookup(migs[sts.entities], feature.CVE_ENT)
               municipality == Lookup(migs[sts.municipalities], feature.CVE_MUN)
           IN  IF ~entity.found \/ ~municipality.found
               THEN [error |-> "KeyError", parents |-> {}, migrators |-> migs]
               ELSE [error |-> "",
                     parents |-> {entity.value, municipality.value},
                     migrators |-> migs]

symmetrical_add(table, locality, parents) ==
    [i \in DOMAIN table |->
        IF i = locality THEN [table[i] EXCEPT !.is_part_of = @ \cup parents]
        ELSE IF i \in parents THEN [table[i] EXCEPT !.is_part_of = @ \cup {locality}]
        ELSE table[i]]

\* locality.is_part_of.add(*parents): the links go from the child to its parents
is_part_of_add(table, locality, parents) ==
    [table EXCEPT ![locality].is_part_of = @ \cup parents]

StopOneEarly(i, layer) == i + 1 >= Len(layer)

\* the for loop of migrate has no feature left
LayerExhausted(i, layer) == i >= Len(layer)

----------------------------------------------------------------------------
(* The run *)

Init ==
    /\ shp \in HierarchyInputs
    /\ unpacked \in BOOLEAN
    /\ unpackCalls = {}
    /\ BASIC_SCHEMA = InitialBasicSchema
    /\ localityTypes = <<>>
    /\ localities = <<>>
    /\ created_from = <<>>
    /\ migrators = [n \in Names |-> EmptyDict]
    /\ stores = EmptyDict
    /\ pc = "idle"
    /\ level = "Entidad"
    /\ idx = 0
    /\ run = 0
    /\ rowsBefore = 0
    /\ typesBefore = 0
    /\ error = ""

InitGeom ==
    /\ shp \in GeometryInputs
    /\ unpacked \in BOOLEAN
    /\ unpackCalls = {}
    /\ BASIC_SCHEMA = InitialBasicSchema
    /\ localityTypes = <<>>
    /\ localities = <<>>
    /\ created_from = <<>>
    /\ migrators = [n \in Names |-> EmptyDict]
    /\ stores = EmptyDict
    /\ pc = "idle"
    /\ level = "Entidad"
    /\ idx = 0
    /\ run = 0
    /\ rowsBefore = 0
    /\ typesBefore = 0
    /\ error = ""

\* migrate_geostatistical_framework, lines 37-40: the unpack check and the
\* construction of the entity migrator.  The migration can be invoked again
\* once an earlier call has returned or raised.
Run ==
    /\ pc \in {"idle", "done", "aborted"}
    /\ run < MaxRuns
    /\ run' = run + 1
    /\ unpackCalls' = IF data_is_unpacked(unpacked) THEN unpackCalls
                      ELSE unpackCalls \cup {run + 1}
    /\ unpacked' = TRUE
    /\ migrators' = [n \in Names |-> EmptyDict]
    /\ stores' = EmptyDict
    /\ rowsBefore' = Len(localities)
    /\ typesBefore' = Len(localityTypes)
    /\ error' = ""
    /\ pc' = "start"
    /\ level' = "Entidad"
    /\ idx' = 0
    /\ UNCHANGED <<shp, BASIC_SCHEMA, localityTypes, localities, created_from>>

\* Migrator.migrate, lines 85-92: open the layer, create the LocalityType.
\* self.locality_type is the row just created, the last of the table.
MigrateStart ==
    /\ pc = "start"
    /\ LET made == create_metadata_schema(BASIC_SCHEMA, level)
       IN  /\ localityTypes' = Append(localityTypes,
                                  [name |-> level, metadata_schema |-> made.schema])
           /\ BASIC_SCHEMA' = made.base
    /\ pc' = "loop"
    /\ idx' = 0
    /\ UNCHANGED <<shp, unpacked, unpackCalls, localities, created_from,
                   migrators, stores, level, run, rowsBefore, typesBefore, error>>

\* Migrator.create_locality_from_feature on the next feature of the layer:
\* the row is created first, then create_locality_implications links it; a
\* KeyError there leaves the row and ends the run.
MigrateFeature ==
    /\ pc = "loop"
    /\ ~LayerExhausted(idx, shp[level])
    /\ LET feature == shp[level][idx + 1]
           locality == Len(localities) + 1
           geometry == Transform(WrapGeometry(feature))
           impl == create_locality_implications(level, feature, locality,
                                                migrators, stores)
           created == Append(localities,
                             [geometry |-> Wkt(geometry),
                              locality_type |-> Len(localityTypes),
                              metadata |-> get_feature_metadata(feature, level),
                              is_part_of |-> {}])
       IN  /\ localities' = IF impl.error = ""
                             THEN is_part_of_add(created, locality, impl.parents)
                             ELSE created
           /\ created_from' = Append(created_from, feature)
           /\ migrators' = impl.migrators
           /\ error' = impl.error
           /\ IF impl.error = ""
              THEN pc' = "loop" /\ idx' = idx + 1
              ELSE pc' = "aborted" /\ idx' = idx
    /\ UNCHANGED <<shp, unpacked, unpackCalls, BASIC_SCHEMA, localityTypes,
                   stores, level, run, rowsBefore, typesBefore>>

\* the loop of migrate ends (line 97) and migrate_geostatistical_framework
\* goes on: lines 43-44 after the entities, 47-48 after the municipalities,
\* the return after the localities
MigrateDone ==
    /\ pc = "loop"
    /\ LayerExhausted(idx, shp[level])
    /\ CASE level = "Entidad" ->
              /\ stores' = Put(EmptyDict, "entities", "Entidad")
              /\ migrators' = [migrators EXCEPT !.Municipio = EmptyDict]
              /\ level' = "Municipio"
              /\ pc' = "start"
         [] level = "Municipio" ->
              /\ stores' = Put(stores, "municipalities", "Municipio")
              /\ migrators' = [migrators EXCEPT !.Localidad = EmptyDict]
              /\ level' = "Localidad"
              /\ pc' = "start"
         [] level = "Localidad" ->
              /\ pc' = "done"
              /\ UNCHANGED <<stores, migrators, level>>
    /\ idx' = 0
    /\ UNCHANGED <<shp, unpacked, unpackCalls, BASIC_SCHEMA, localityTypes,
                   localities, created_from, run, rowsBefore, typesBefore, error>>

Next == Run \/ MigrateStart \/ MigrateFeature \/ MigrateDone

Spec == Init /\ [][Next]_vars

SpecGeom == InitGeom /\ [][Next]_vars

----------------------------------------------------------------------------
(* Vocabulary of the properties *)

Rows == DOMAIN localities

\* the rows the current run created
RunRows == {i \in Rows : i > rowsBefore}

\* the level of a row: the name of its LocalityType
LevelOf(i) == localityTypes[localities[i].locality_type].name

RunRowsAt(name) == {i \in RunRows : LevelOf(i) = name}

EntCodes == {shp.Entidad[i].CVE_ENT : i \in DOMAIN shp.Entidad}

MunCodes == {shp.Municipio[i].CVE_MUN : i \in DOMAIN shp.Municipio}

AllFeatures == shp.Entidad \o shp.Municipio \o shp.Localidad

\* the features of the layers that come before a level
Offset(name) ==
    CASE name = "Entidad" -> 0
      [] name = "Municipio" -> Len(shp.Entidad)
      [] name = "Localidad" -> Len(shp.Entidad) + Len(shp.Municipio)

\* the level of the k-th feature of a run
LevelAt(k) ==
    IF k <= Len(shp.Entidad) THEN "Entidad"
    ELSE IF k <= Len(shp.Entidad) + Len(shp.Municipio) THEN "Municipio"
    ELSE "Localidad"

\* the row is a value of no migrator's dict
InNoStore(i) ==
    \A n \in Names : \A k \in DOMAIN migrators[n] : migrators[n][k] # i

----------------------------------------------------------------------------
(* C1 *)

\* every locality feature names a municipality feature by (CVE_ENT, CVE_MUN),
\* and every CVE_ENT names an entity feature
WellFormedInput ==
    /\ \A i \in DOMAIN shp.Localidad : \E j \in DOMAIN shp.Municipio :
          /\ shp.Municipio[j].CVE_ENT = shp.Localidad[i].CVE_ENT
          /\ shp.Municipio[j].CVE_MUN = shp.Localidad[i].CVE_MUN
    /\ \A i \in DOMAIN shp.Municipio : shp.Municipio[i].CVE_ENT \in EntCodes
    /\ \A i \in DOMAIN shp.Localidad : shp.Localidad[i].CVE_ENT \in EntCodes

\* C1: after a completed run over a well-formed input, the Municipality record
\* in the containment set of every Locality-level record was created from a
\* municipality feature with the locality feature's CVE_ENT.
C1_TransitiveConsistency ==
    (pc = "done" /\ WellFormedInput) =>
        \A i \in Rows : LevelOf(i) = "Localidad" =>
            \A j \in localities[i].is_part_of :
                (j \in Rows /\ LevelOf(j) = "Municipio") =>
                    created_from[j].CVE_ENT = created_from[i].CVE_ENT

----------------------------------------------------------------------------
(* C2 *)

\* C2: after a completed run the containment set of every Locality-level
\* record is exactly one Entity-level record with its CVE_ENT and one
\* Municipality-level record with its CVE_MUN, and no Locality-level record is
\* ever a value of a lookup store.
C2_LocalityParents ==
    /\ \A i \in Rows : LevelOf(i) = "Localidad" => InNoStore(i)
    /\ pc = "done" =>
          \A i \in Rows : LevelOf(i) = "Localidad" =>
              \E e, m \in Rows :
                  /\ e # m
                  /\ localities[i].is_part_of = {e, m}
                  /\ LevelOf(e) = "Entidad"
                  /\ created_from[e].CVE_ENT = created_from[i].CVE_ENT
                  /\ LevelOf(m) = "Municipio"
                  /\ created_from[m].CVE_MUN = created_from[i].CVE_MUN

C2_Witness ==
    /\ pc = "done"
    /\ Len(shp.Entidad) = 2
    /\ Len(shp.Municipio) = 2
    /\ \E i \in Rows : LevelOf(i) = "Localidad"

----------------------------------------------------------------------------
(* C3 *)

\* C3: after a completed run the containment set of every Municipality-level
\* record is one Entity-level record with its CVE_ENT, and that of every
\* Entity-level record is empty.
C3_MunicipalityParent ==
    pc = "done" =>
        \A i \in Rows :
            /\ LevelOf(i) = "Municipio" =>
                  \E e \in Rows :
                      /\ localities[i].is_part_of = {e}
                      /\ LevelOf(e) = "Entidad"
                      /\ created_from[e].CVE_ENT = created_from[i].CVE_ENT
            /\ LevelOf(i) = "Entidad" => localities[i].is_part_of = {}

C3_Witness ==
    /\ pc = "done"
    /\ Len(shp.Entidad) = 2
    /\ \E i, j \in Rows :
          /\ LevelOf(i) = "Municipio"
          /\ LevelOf(j) = "Municipio"
          /\ created_from[i].CVE_ENT # created_from[j].CVE_ENT

----------------------------------------------------------------------------
(* C4 *)

\* C4: the metadata_schema of every LocalityType declares exactly the
\* attribute codes of its level: 'required' holds each of them once and
\* nothing else, 'properties' has exactly those keys, each of type integer.
C4_SchemaExact ==
    \A t \in DOMAIN localityTypes :
        LET schema == localityTypes[t].metadata_schema
            name == localityTypes[t].name
        IN  /\ {schema.required[i] : i \in DOMAIN schema.required} = CodeSet(name)
            /\ Len(schema.required) = Cardinality(CodeSet(name))
            /\ DOMAIN schema.properties = CodeSet(name)
            /\ \A c \in DOMAIN schema.properties :
                  schema.properties[c].type = "integer"

----------------------------------------------------------------------------
(* C5 *)

MissingEntity(k) == shp.Municipio[k].CVE_ENT \notin EntCodes

HasMissingEntity == \E k \in DOMAIN shp.Municipio : MissingEntity(k)

\* the first municipality feature whose CVE_ENT no entity feature carried
FirstMissing ==
    CHOOSE k \in DOMAIN shp.Municipio :
        MissingEntity(k) /\ \A j \in 1..(k - 1) : ~MissingEntity(j)

C5_State ==
    (run >= 1 /\ HasMissingEntity) =>
        /\ pc # "done"
        /\ level # "Localidad"
        /\ RunRowsAt("Localidad") = {}
        /\ level = "Municipio" => idx < FirstMissing
        /\ Cardinality(RunRowsAt("Municipio")) <= FirstMissing
        /\ pc = "aborted" =>
              /\ error = "KeyError"
              /\ level = "Municipio"
              /\ idx = FirstMissing - 1

C5_Step ==
    HasMissingEntity =>
        /\ (pc = "loop" /\ level = "Municipio" /\ idx = FirstMissing - 1) =>
              (pc' = "aborted" /\ error' = "KeyError")
        /\ pc = "aborted" =>
              (run' = run + 1 /\ pc' = "start" /\ localities' = localities)

\* C5: a municipality feature whose CVE_ENT no entity feature carried ends the
\* run with a KeyError at that feature: no later municipality feature is
\* processed, the locality pass never starts, no row is created afterwards.
C5_MissingEntityAborts == []C5_State /\ [][C5_Step]_vars

C5_Witness ==
    /\ pc = "aborted"
    /\ level = "Municipio"
    /\ FirstMissing = 1
    /\ Len(shp.Municipio) = 2
    /\ Len(shp.Localidad) = 1

----------------------------------------------------------------------------
(* C6 *)

\* C6: the second run finds the directory and does not call unpack_data, and
\* when it completes both tables hold twice what they held after the first
\* run: three types and one Locality row per feature for each run.
C6_SecondRunDoubles ==
    (run = 2 /\ pc = "done") =>
        /\ 2 \notin unpackCalls
        /\ typesBefore = Cardinality(Names)
        /\ Len(localityTypes) = 2 * typesBefore
        /\ rowsBefore = Len(AllFeatures)
        /\ Len(localities) = 2 * rowsBefore

C6_Witness ==
    /\ run = 2
    /\ pc = "done"
    /\ 1 \in unpackCalls
    /\ Len(shp.Entidad) = 2
    /\ Len(shp.Municipio) = 2
    /\ Len(shp.Localidad) = 1

----------------------------------------------------------------------------
(* C7 *)

EndToEndInput ==
    /\ Len(shp.Entidad) = 1
    /\ shp.Entidad[1].CVE_ENT = "01"
    /\ Len(shp.Municipio) = 1
    /\ shp.Municipio[1].CVE_ENT = "01"
    /\ shp.Municipio[1].CVE_MUN = "001"
    /\ Len(shp.Localidad) = 1
    /\ shp.Localidad[1].CVE_ENT = "01"
    /\ shp.Localidad[1].CVE_MUN = "001"
    /\ shp.Localidad[1].CVE_LOC = "0001"

\* C7: on one entity 01, one municipality 01/001 and one locality 01/001/0001
\* the first run raises nothing and ends with 3 LocalityType rows and 3
\* Locality rows, the municipality in {entity}, the locality in {entity,
\* municipality}.
C7_EndToEnd ==
    (EndToEndInput /\ run = 1) =>
        /\ pc # "aborted"
        /\ error = ""
        /\ pc = "done" =>
              /\ Len(localityTypes) = 3
              /\ Len(localities) = 3
              /\ LevelOf(1) = "Entidad"
              /\ LevelOf(2) = "Municipio"
              /\ LevelOf(3) = "Localidad"
              /\ localities[1].is_part_of = {}
              /\ localities[2].is_part_of = {1}
              /\ localities[3].is_part_of = {1, 2}

C7_Witness == EndToEndInput /\ run = 1 /\ pc = "done"

----------------------------------------------------------------------------
(* C8 *)

\* the coordinates of a geometry after the transform
Transformed(rings) ==
    [k \in DOMAIN rings |-> [ring |-> rings[k].ring, crs |-> TargetSrs]]

\* C8: every stored geometry is a MultiPolygon in the target SRS: a Polygon
\* feature is stored as the MultiPolygon of that one polygon, a MultiPolygon
\* feature with its own polygons.
C8_Wrapping ==
    \A i \in Rows :
        LET source == created_from[i].geom
            stored == localities[i].geometry
        IN  /\ stored.geom_type = "MultiPolygon"
            /\ source.geom_type = "Polygon" => Len(stored.rings) = 1
            /\ stored.rings = Transformed(source.rings)

C8_Witness ==
    /\ \E i \in Rows : created_from[i].geom.geom_type = "Polygon"
    /\ \E i \in Rows : created_from[i].geom.geom_type = "MultiPolygon"

----------------------------------------------------------------------------
(* C9 *)

\* the LocalityType rows a run has created when it is at a level
TypesAt(name) ==
    CASE name = "Entidad" -> 1
      [] name = "Municipio" -> 2
      [] name = "Localidad" -> 3

\* C9: the rows of a run are made from the features of the entity layer, then
\* the municipality layer, then the locality layer, each in layer order and
\* one per step; a level's LocalityType exists before its first row; the
\* entity store is complete when the municipality pass starts and the
\* municipality store when the locality pass starts.
C9_PassOrdering ==
    run >= 1 =>
        /\ Len(localities) - rowsBefore =
              IF pc = "done" THEN Len(AllFeatures)
              ELSE Offset(level) + idx + (IF pc = "aborted" THEN 1 ELSE 0)
        /\ \A i \in RunRows :
              /\ created_from[i] = AllFeatures[i - rowsBefore]
              /\ localities[i].locality_type > typesBefore
              /\ LevelOf(i) = LevelAt(i - rowsBefore)
        /\ Len(localityTypes) - typesBefore =
              IF pc = "start" THEN TypesAt(level) - 1 ELSE TypesAt(level)
        /\ level # "Entidad" =>
              /\ DOMAIN migrators.Entidad = EntCodes
              /\ "entities" \in DOMAIN stores
              /\ stores.entities = "Entidad"
        /\ level = "Localidad" =>
              /\ DOMAIN migrators.Municipio = MunCodes
              /\ "municipalities" \in DOMAIN stores
              /\ stores.municipalities = "Municipio"

C9_Witness ==
    /\ pc = "loop"
    /\ level = "Localidad"
    /\ idx = 1
    /\ Len(shp.Entidad) = 2
    /\ Len(shp.Municipio) = 2

----------------------------------------------------------------------------
(* C10 *)

\* the Municipality- and Locality-level rows of the run with no parent
Orphans ==
    {i \in RunRows : LevelOf(i) # "Entidad" /\ localities[i].is_part_of = {}}

\* C10: a run has a Municipality- or Locality-level row without parents only
\* when it ended on a KeyError of that row's parent lookup; the row is then
\* the last one created, made from the feature the run stopped at, and a
\* value of no store.
C10_CreateBeforeLink ==
    /\ Cardinality(Orphans) <= 1
    /\ pc = "aborted" => Orphans = {Len(localities)}
    /\ \A i \in Orphans :
          /\ i = Len(localities)
          /\ pc = "aborted"
          /\ error = "KeyError"
          /\ InNoStore(i)
          /\ created_from[i] = shp[level][idx + 1]
          /\ \/ created_from[i].CVE_ENT \notin DOMAIN migrators.Entidad
             \/ /\ level = "Localidad"
                /\ created_from[i].CVE_MUN \notin DOMAIN migrators.Municipio

C10_Witness ==
    /\ pc = "aborted"
    /\ level = "Localidad"
    /\ created_from[Len(localities)].CVE_ENT \in DOMAIN migrators.Entidad
    /\ Orphans # {}

====
